---------------------------- MODULE Spec2Model ----------------------------
(***************************************************************************)
(* Model of python-git-files (src/main.py): the retrying HTTP executor     *)
(* make_request with handle_rate_limit, the commit enumerator              *)
(* get_commit_urls, the file resolver get_commit_files, the aggregator     *)
(* get_commits_files, the persister write_files_to_file and main.          *)
(*                                                                         *)
(* The program is sequential.  Its state is the position in the code (pc), *)
(* the local variables of the active functions and the frame of the        *)
(* make_request call in progress.  The environment is the process          *)
(* environment read by load_config and the HTTP server: every GET draws    *)
(* its outcome (a network error or a response) from the server model.      *)
(*                                                                         *)
(* Strings that the code inspects (file names) are sequences of            *)
(* one-character strings; strings that the code only compares for equality *)
(* (logins, URLs) are TLA+ strings.                                        *)
(*                                                                         *)
(* Environment assumptions (spec.md section 6): a response carries a 2xx,  *)
(* 4xx or 5xx status (the HTTP library follows redirects itself), and the  *)
(* X-RateLimit-Reset header, when present, is an integer Unix timestamp.   *)
(***************************************************************************)
EXTENDS Integers, Sequences, FiniteSets, TLC

VARIABLES
    entry,      \* the function of main.py called from outside
    config,     \* the Config object
    server,     \* the repository as served: list pages, commit details, network
    pc,         \* position in the code
    req,        \* frame of the make_request call in progress (or last finished)
    page,       \* get_commit_urls: page counter
    urls,       \* get_commit_urls: urls; get_commits_files: its argument
    cursor,     \* get_commits_files: index of the url being resolved
    files,      \* get_commits_files: the accumulating set
    todo,       \* argument lists of the outside caller's successive calls
    ret,        \* values returned to the outside caller, one per finished call
    error,      \* exception raised out of the entry function
    commit_files, \* main: the list returned by get_commits_files
    written,    \* contents written by write_files_to_file, one per invocation
    calls,      \* logical requests started so far (targets of make_request)
    paced       \* seconds slept in pacing delays since the last GET

vars == <<entry, config, server, pc, req, page, urls, cursor, files, todo,
          ret, error, commit_files, written, calls, paced>>

---------------------------------------------------------------------------
(* Bounds of the model *)

\* largest max_retries argument passed to a direct make_request call
MaxRetriesArg == 4
\* largest Config.MAX_RETRIES of a directly constructed Config
MaxConfigRetries == 4
\* largest clock reading and reset timestamp
MaxTime == 3
\* most pages the list endpoint serves before it only returns empty pages
MaxPages == 2
\* most commit records the list endpoint serves over all its pages
MaxCommits == 3
\* most entries of a commit detail's files array
MaxFiles == 3
\* most commit URLs passed to a direct get_commits_files call
MaxUrls == 3

(* Program constants *)

\* make_request's default max_retries
DefaultMaxRetries == 3
\* Config.MAX_RETRIES default
ConfigMaxRetries == 3
\* Config.RATE_LIMIT_DELAY default
ConfigRateLimitDelay == 1

---------------------------------------------------------------------------
(* Generic helpers *)

Range(s) == {s[i] : i \in DOMAIN s}

Max(a, b) == IF a >= b THEN a ELSE b

RECURSIVE Pow2(_)
Pow2(n) == IF n <= 0 THEN 1 ELSE 2 * Pow2(n - 1)

\* all sequences over S of length at most n
SeqsUpTo(S, n) == UNION {[1..k -> S] : k \in 0..n}

RECURSIVE Flatten(_)
Flatten(ss) == IF ss = <<>> THEN <<>> ELSE Head(ss) \o Flatten(Tail(ss))

---------------------------------------------------------------------------
(* Python str operations on file names (sequences of characters) *)

\* ord(c) for the characters that occur in the model's file names
Ord(c) ==
    CASE c = "\n" -> 10
      [] c = "."  -> 46
      [] c = "/"  -> 47
      [] c = "O"  -> 79
      [] c = "_"  -> 95
      [] c = "a"  -> 97
      [] c = "b"  -> 98
      [] c = "c"  -> 99
      [] c = "d"  -> 100
      [] c = "e"  -> 101
      [] c = "f"  -> 102
      [] c = "l"  -> 108
      [] c = "m"  -> 109
      [] c = "n"  -> 110
      [] c = "o"  -> 111
      [] c = "p"  -> 112
      [] c = "r"  -> 114
      [] c = "s"  -> 115
      [] c = "t"  -> 116
      [] c = "u"  -> 117
      [] c = "x"  -> 120
      [] c = "y"  -> 121

\* str.endswith
EndsWith(s, suffix) ==
    /\ Len(suffix) <= Len(s)
    /\ SubSeq(s, Len(s) - Len(suffix) + 1, Len(s)) = suffix

\* the `in` operator on str: sub occurs somewhere in s
Contains(s, sub) ==
    \E i \in 1..(Len(s) - Len(sub) + 1) : SubSeq(s, i, i + Len(sub) - 1) = sub

\* str.__lt__: lexicographic order by code point, a proper prefix is smaller
RECURSIVE StrLess(_, _)
StrLess(a, b) ==
    IF b = <<>> THEN FALSE
    ELSE IF a = <<>> THEN TRUE
    ELSE IF Ord(Head(a)) < Ord(Head(b)) THEN TRUE
    ELSE IF Ord(Head(a)) > Ord(Head(b)) THEN FALSE
    ELSE StrLess(Tail(a), Tail(b))

\* faulty variant: the list is sorted in descending order
RECURSIVE SortedDescending(_)
SortedDescending(S) ==
    IF S = {} THEN <<>>
    ELSE LET m == CHOOSE x \in S : \A y \in S \ {x} : StrLess(y, x)
         IN  <<m>> \o SortedDescending(S \ {m})

\* sorted(list(S)) for a set of str
RECURSIVE Sorted(_)
Sorted(S) ==
    IF S = {} THEN <<>>
    ELSE LET m == CHOOSE x \in S : \A y \in S \ {x} : StrLess(x, y)
         IN  <<m>> \o Sorted(S \ {m})

\* faulty variant: every part, and the text itself, ends with the separator
RECURSIVE JoinTerminated(_, _)
JoinTerminated(sep, parts) ==
    IF parts = <<>> THEN sep
    ELSE IF Len(parts) = 1 THEN parts[1] \o sep
    ELSE parts[1] \o sep \o JoinTerminated(sep, Tail(parts))

\* sep.join(parts)
RECURSIVE Join(_, _)
Join(sep, parts) ==
    IF parts = <<>> THEN <<>>
    ELSE IF Len(parts) = 1 THEN parts[1]
    ELSE parts[1] \o sep \o Join(sep, Tail(parts))

---------------------------------------------------------------------------
(* The Config dataclass and load_config *)

NoneValue == "None"

\* what os.getenv yields for a variable: unset, set to '', set to a value
Environs ==
    [GITHUB_TOKEN : {NoneValue, "", "tok"},
     GITHUB_REPO : {NoneValue, "", "repo"},
     GITHUB_REPO_OWNER : {NoneValue, "", "alice"}]

\* faulty variant: the validation only tests for None
TruthyNotNone(x) == x # NoneValue

\* bool(x) of an Optional[str]
Truthy(x) == x # NoneValue /\ x # ""

Config(token, repo, owner, max_retries) ==
    [GITHUB_TOKEN |-> token,
     GITHUB_REPO |-> repo,
     GITHUB_REPO_OWNER |-> owner,
     MAX_RETRIES |-> max_retries,
     RATE_LIMIT_DELAY |-> ConfigRateLimitDelay]

\* load_config: MAX_RETRIES and the delays keep the dataclass defaults
LoadConfig(environ) ==
    Config(environ.GITHUB_TOKEN, environ.GITHUB_REPO,
           environ.GITHUB_REPO_OWNER, ConfigMaxRetries)

\* Config objects built directly with valid credentials and any MAX_RETRIES
DirectConfigs ==
    {Config("tok", "repo", "alice", n) : n \in 1..MaxConfigRetries}

---------------------------------------------------------------------------
(* HTTP: responses, handle_rate_limit, raise_for_status *)

NoBody == [kind |-> "none"]

\* requests.get raised a network error instead of returning a response
NetworkError ==
    [kind |-> "ConnectionError", status |-> 0, remaining |-> FALSE,
     hasReset |-> FALSE, reset |-> 0, body |-> NoBody]

\* response.status_code, 'X-RateLimit-Remaining' in headers,
\* 'X-RateLimit-Reset' in headers and its value, response.json()
Response(status, remaining, hasReset, reset, body) ==
    [kind |-> "Response", status |-> status, remaining |-> remaining,
     hasReset |-> hasReset, reset |-> reset, body |-> body]

StatusCodes == {200, 403, 500}

\* time.time() readings
Times == 1..MaxTime

\* faulty variant: the wait is not clamped at 0
HandleRateLimitUnclamped(response, now) ==
    IF response.status = 403 /\ response.remaining
    THEN (IF response.hasReset THEN response.reset ELSE 0) - now
    ELSE 0

\* handle_rate_limit: the time slept (0: no sleep)
HandleRateLimit(response, now) ==
    IF response.status = 403 /\ response.remaining
    THEN LET reset_time == IF response.hasReset THEN response.reset ELSE 0
             wait_time == Max(reset_time - now, 0)
         IN  IF wait_time > 0 THEN wait_time ELSE 0
    ELSE 0

\* Response.raise_for_status raises HTTPError for 4xx and 5xx
RaisesForStatus(response) == response.status >= 400 /\ response.status < 600

NoException == [type |-> "none", status |-> 0]

\* the RequestException of a failed attempt
RequestException(response) ==
    IF response.kind = "ConnectionError"
    THEN [type |-> "ConnectionError", status |-> 0]
    ELSE [type |-> "HTTPError", status |-> response.status]

---------------------------------------------------------------------------
(* make_request *)

NoResponse ==
    [kind |-> "none", status |-> 0, remaining |-> FALSE,
     hasReset |-> FALSE, reset |-> 0, body |-> NoBody]

\* state: idle, running, returned or raised; attempt: the loop variable;
\* response: the last outcome of requests.get; value: the value returned
\* (NoResponse stands for None); exc: the exception of the last attempt.
\* Observations: gets and failures count the GETs issued and the attempts
\* that failed; now is the clock read by handle_rate_limit, waited its sleep
\* and backoff the sleep of the except clause, all of the last attempt
IdleRequest ==
    [state |-> "idle", url |-> "", max_retries |-> 0, attempt |-> 0,
     gets |-> 0, failures |-> 0, response |-> NoResponse,
     value |-> NoResponse, now |-> 0, waited |-> 0, backoff |-> 0,
     exc |-> NoException]

\* entering make_request(url, ..., max_retries): range(max_retries) is empty
\* for max_retries <= 0 and the function falls off its end, returning None
BeginRequest(url, max_retries) ==
    [IdleRequest EXCEPT
        !.state = IF max_retries <= 0 THEN "returned" ELSE "running",
        !.url = url,
        !.max_retries = max_retries]

\* faulty variant: the last-attempt test is off by one
IsLastAttemptOffByOne(attempt, max_retries) == attempt = max_retries

\* the last iteration of `for attempt in range(max_retries)`
IsLastAttempt(attempt, max_retries) == attempt = max_retries - 1

\* faulty variant: the delay grows linearly with the attempt number
BackoffLinear(attempt) == 2 * (attempt + 1)

\* time.sleep(2 ** attempt)
Backoff(attempt) == Pow2(attempt)

\* one iteration of the loop: the GET, handle_rate_limit, raise_for_status,
\* and either the return or the except clause; when range(max_retries) is
\* exhausted after the except clause the function falls off its end
AttemptStep(r, outcome, now) ==
    LET failed == outcome.kind = "ConnectionError" \/ RaisesForStatus(outcome)
        waited == IF outcome.kind = "ConnectionError" THEN 0
                  ELSE HandleRateLimit(outcome, now)
        last == IsLastAttempt(r.attempt, r.max_retries)
        retry == failed /\ ~last
    IN  [r EXCEPT
            !.gets = @ + 1,
            !.failures = IF failed THEN @ + 1 ELSE @,
            !.response = outcome,
            !.value = IF failed THEN NoResponse ELSE outcome,
            !.now = IF outcome.status = 403 /\ outcome.remaining THEN now ELSE 0,
            !.waited = waited,
            !.backoff = IF retry THEN Backoff(r.attempt) ELSE 0,
            !.exc = IF failed THEN RequestException(outcome) ELSE NoException,
            !.attempt = IF retry THEN @ + 1 ELSE @,
            !.state = IF ~failed THEN "returned"
                      ELSE IF last THEN "raised"
                      ELSE IF r.attempt + 1 < r.max_retries THEN "running"
                      ELSE "returned"]

---------------------------------------------------------------------------
(* JSON payloads *)

\* a commit record of the list endpoint; shape tells what is missing from it
CommitRecord(shape, url, login) == [shape |-> shape, url |-> url, login |-> login]

\* None.json()
AttributeError == [type |-> "AttributeError", status |-> 0]

ListBody(data) == [kind |-> "list", data |-> data]

DetailBody(hasFiles, names) ==
    [kind |-> "detail", hasFiles |-> hasFiles, files |-> names]

\* faulty variant: a record that lacks a field is passed over
RecordErrorIgnored(commit, owner) == NoException

\* the exception of evaluating, for one record of the comprehension,
\* commit['author']['login'] == owner and, when it holds, commit['url']
RecordError(commit, owner) ==
    IF commit.shape = "no_author" \/ commit.shape = "no_login"
    THEN [type |-> "KeyError", status |-> 0]
    ELSE IF commit.shape = "null_author"
    THEN [type |-> "TypeError", status |-> 0]
    ELSE IF commit.shape = "no_url" /\ commit.login = owner
    THEN [type |-> "KeyError", status |-> 0]
    ELSE NoException

\* the exception the list comprehension raises over a page, if any: that of
\* the first record that raises
RECURSIVE PageError(_, _)
PageError(data, owner) ==
    IF data = <<>> THEN NoException
    ELSE IF RecordError(Head(data), owner) # NoException
    THEN RecordError(Head(data), owner)
    ELSE PageError(Tail(data), owner)

\* str.lower on the logins of the model
Lower(login) == IF login = "Alice" THEN "alice" ELSE login

\* faulty variant: the logins are compared without regard to case
AuthorMatchesIgnoreCase(commit, owner) == Lower(commit.login) = Lower(owner)

\* the filter of the comprehension: == on str is exact
AuthorMatches(commit, owner) == commit.login = owner

\* [commit['url'] for commit in data if commit['author']['login'] == owner]
RECURSIVE OwnerUrls(_, _)
OwnerUrls(data, owner) ==
    IF data = <<>> THEN <<>>
    ELSE (IF AuthorMatches(Head(data), owner) THEN <<Head(data).url>> ELSE <<>>)
         \o OwnerUrls(Tail(data), owner)

\* the suffixes and the marker of get_commit_files
BlockedSuffixes ==
    {<<".", "p", "y", "c">>, <<".", "p", "y", "o">>, <<".", "p", "d", "f">>}

Marker == <<"o", "l", "d">>

\* faulty variant: only the suffixes are tested
ExcludedBySuffixOnly(filename) ==
    \E ext \in BlockedSuffixes : EndsWith(filename, ext)

\* the condition of the `continue` in get_commit_files
Excluded(filename) ==
    \/ \E ext \in BlockedSuffixes : EndsWith(filename, ext)
    \/ Contains(filename, Marker)

\* faulty variant: only the last element of the list is compared
InListLastOnly(x, list) == list # <<>> /\ list[Len(list)] = x

\* `filename in filenames` for a list
InList(x, list) == \E i \in DOMAIN list : list[i] = x

\* the loop of get_commit_files over the files array, from `filenames`
RECURSIVE FilterFiles(_, _)
FilterFiles(names, filenames) ==
    IF names = <<>> THEN filenames
    ELSE IF Excluded(Head(names)) THEN FilterFiles(Tail(names), filenames)
    ELSE IF ~InList(Head(names), filenames)
    THEN FilterFiles(Tail(names), Append(filenames, Head(names)))
    ELSE FilterFiles(Tail(names), filenames)

---------------------------------------------------------------------------
(* The server *)

ListUrl == "commits"

CommitUrls == {"c1", "c2", "c3"}

Target(url, pageNo) == [url |-> url, page |-> pageNo]

\* the JSON served for a successful GET of url (with params page = pageNo)
ServerBody(srv, url, pageNo) ==
    IF url = ListUrl
    THEN ListBody(IF pageNo \in DOMAIN srv.pages THEN srv.pages[pageNo] ELSE <<>>)
    ELSE srv.detail[url]

Headers(remaining, hasReset, reset) ==
    [remaining |-> remaining, hasReset |-> hasReset, reset |-> reset]

NoHeaders == Headers(FALSE, FALSE, 0)

AllHeaders ==
    {Headers(rem, hr, IF hr THEN rs ELSE 0) :
        rem \in BOOLEAN, hr \in BOOLEAN, rs \in 0..MaxTime}

\* every failing outcome: a network error, or a 4xx/5xx with any headers
AllFaults ==
    {NetworkError} \cup
    {Response(st, h.remaining, h.hasReset, h.reset, NoBody) :
        st \in StatusCodes \ {200}, h \in AllHeaders}

\* a network error, a server error and a rate-limit response whose reset
\* time lies after every clock reading
SomeFaults ==
    {NetworkError,
     Response(500, FALSE, FALSE, 0, NoBody),
     Response(403, TRUE, TRUE, MaxTime + 1, NoBody)}

\* the failing outcomes of a network of the given kind
Faults(network) ==
    CASE network = "any" -> AllFaults
      [] network = "flaky" -> SomeFaults
      [] OTHER -> {}

\* the headers of the successful responses of a network of the given kind
OkHeaders(network) == IF network = "any" THEN AllHeaders ELSE {NoHeaders}

\* what one GET can meet
Outcomes(srv, url, pageNo) ==
    Faults(srv.network) \cup
    {Response(200, h.remaining, h.hasReset, h.reset, ServerBody(srv, url, pageNo)) :
        h \in OkHeaders(srv.network)}

---------------------------------------------------------------------------
(* Propagation and return *)

\* faulty variant: the exception is logged and the run goes on to write the file
RaiseAndWrite(exc) ==
    /\ pc' = "write_files_to_file"
    /\ error' = exc

\* an exception leaves the entry function (main logs it and re-raises it)
Raise(exc) ==
    /\ pc' = "raised"
    /\ error' = exc

\* the entry function returns value to the outside caller
Return(value) ==
    /\ pc' = "returned"
    /\ ret' = Append(ret, value)

---------------------------------------------------------------------------
(* Actions *)

\* get_commit_urls up to its first request: urls = [], page = 1, and
\* make_request(config.GITHUB_API_URL, headers, params) with the default
\* max_retries
StartGetCommitUrls ==
    /\ urls' = <<>>
    /\ page' = 1
    /\ req' = BeginRequest(ListUrl, DefaultMaxRetries)
    /\ calls' = Append(calls, Target(ListUrl, 1))
    /\ pc' = "get_commit_urls"

\* main up to the first request: load_config, the validation, get_commit_urls
Main ==
    /\ pc = "main"
    /\ IF Truthy(config.GITHUB_TOKEN) /\ Truthy(config.GITHUB_REPO)
          /\ Truthy(config.GITHUB_REPO_OWNER)
       THEN /\ StartGetCommitUrls
            /\ UNCHANGED error
       ELSE /\ Raise([type |-> "ValueError", status |-> 0])
            /\ UNCHANGED <<urls, page, req, calls>>
    /\ UNCHANGED <<entry, config, server, cursor, files, todo, ret,
                   commit_files, written, paced>>

\* one iteration of make_request's loop; the exception of the last allowed
\* attempt propagates through the callers, none of which catches it
Attempt ==
    /\ pc \in {"make_request", "get_commit_urls", "get_commit_files"}
    /\ req.state = "running"
    /\ \E outcome \in Outcomes(server, req.url, page), now \in Times :
         LET r == AttemptStep(req, outcome, now)
         IN  /\ req' = r
             /\ IF r.state = "raised"
                THEN Raise(r.exc) /\ UNCHANGED ret
                ELSE IF r.state = "returned" /\ entry = "make_request"
                THEN Return(r.value) /\ UNCHANGED error
                ELSE UNCHANGED <<pc, ret, error>>
    /\ paced' = 0
    /\ UNCHANGED <<entry, config, server, page, urls, cursor, files, todo,
                   commit_files, written, calls>>

\* faulty variant: the set is replaced by the commit's files
UpdateOverwrites(set, filenames) == Range(filenames)

\* files.update(filenames)
Update(set, filenames) == set \cup Range(filenames)

\* get_commits_files up to its loop: files = set()
StartGetCommitsFiles ==
    /\ files' = {}
    /\ cursor' = 1
    /\ pc' = "get_commits_files"

\* faulty variant: the counter skips a page
NextPageSkipping(pageNo) == pageNo + 2

\* page += 1
NextPage(pageNo) == pageNo + 1

\* get_commit_urls after make_request returned: response.json(), the break
\* on an empty page, or the comprehension, urls.extend, page += 1, the sleep
\* and the next request
GetCommitUrlsPage ==
    /\ pc = "get_commit_urls"
    /\ req.state = "returned"
    /\ LET data == IF req.value = NoResponse THEN <<>> ELSE req.value.body.data
           exc == IF req.value = NoResponse THEN AttributeError
                  ELSE PageError(data, config.GITHUB_REPO_OWNER)
       IN  IF req.value # NoResponse /\ data = <<>>
           THEN /\ req' = IdleRequest
                /\ IF entry = "main"
                   THEN StartGetCommitsFiles /\ UNCHANGED ret
                   ELSE Return(urls) /\ UNCHANGED <<files, cursor>>
                /\ UNCHANGED <<urls, page, calls, error, paced>>
           ELSE IF exc # NoException
           THEN /\ Raise(exc)
                /\ UNCHANGED <<urls, page, req, calls, ret, files, cursor,
                               paced>>
           ELSE /\ urls' = urls \o OwnerUrls(data, config.GITHUB_REPO_OWNER)
                /\ page' = NextPage(page)
                /\ req' = BeginRequest(ListUrl, DefaultMaxRetries)
                /\ paced' = paced + config.RATE_LIMIT_DELAY
                /\ calls' = Append(calls, Target(ListUrl, NextPage(page)))
                /\ UNCHANGED <<pc, ret, error, files, cursor>>
    /\ UNCHANGED <<entry, config, server, todo, commit_files, written>>

\* faulty variant: the list is walked from its end
UrlAtReversed(commit_urls, k) == commit_urls[Len(commit_urls) + 1 - k]

\* the url of the k-th iteration of `for url in commit_urls`
UrlAt(commit_urls, k) == commit_urls[k]

\* the head of get_commits_files' loop: the call of get_commit_files for the
\* next url up to its request, or sorted(list(files)) returned after the loop
GetCommitsFilesLoop ==
    /\ pc = "get_commits_files"
    /\ IF cursor <= Len(urls)
       THEN /\ req' = BeginRequest(UrlAt(urls, cursor), DefaultMaxRetries)
            /\ calls' = Append(calls, Target(UrlAt(urls, cursor), 0))
            /\ pc' = "get_commit_files"
            /\ UNCHANGED <<ret, commit_files>>
       ELSE /\ req' = IdleRequest
            /\ IF entry = "main"
               THEN /\ commit_files' = Sorted(files)
                    /\ pc' = "write_files_to_file"
                    /\ UNCHANGED ret
               ELSE /\ Return(Sorted(files))
                    /\ UNCHANGED commit_files
            /\ UNCHANGED calls
    /\ UNCHANGED <<entry, config, server, page, urls, cursor, files, todo,
                   error, written, paced>>

\* get_commit_files after make_request returned: response.json()['files'],
\* the filter loop and the return; in get_commits_files then files.update,
\* the sleep and the next iteration
GetCommitFilesBody ==
    /\ pc = "get_commit_files"
    /\ req.state = "returned"
    /\ LET body == req.value.body
       IN  IF req.value = NoResponse \/ ~body.hasFiles
           THEN /\ Raise(IF req.value = NoResponse THEN AttributeError
                         ELSE [type |-> "KeyError", status |-> 0])
                /\ UNCHANGED <<req, ret, files, cursor, paced>>
           ELSE LET filenames == FilterFiles(body.files, <<>>)
                IN  IF entry = "get_commit_files"
                    THEN /\ Return(filenames)
                         /\ req' = IdleRequest
                         /\ UNCHANGED <<error, files, cursor, paced>>
                    ELSE /\ files' = Update(files, filenames)
                         /\ cursor' = cursor + 1
                         /\ paced' = paced + config.RATE_LIMIT_DELAY
                         /\ pc' = "get_commits_files"
                         /\ UNCHANGED <<req, ret, error>>
    /\ UNCHANGED <<entry, config, server, page, urls, todo, commit_files,
                   written, calls>>

\* write_files_to_file, then main ends
WriteFilesToFile ==
    /\ pc = "write_files_to_file"
    /\ written' = Append(written, Join(<<"\n">>, commit_files))
    /\ pc' = "done"
    /\ UNCHANGED <<entry, config, server, req, page, urls, cursor, files,
                   todo, ret, error, commit_files, calls, paced>>

(* Direct calls of the functions of main.py *)

CallMakeRequest ==
    /\ pc = "caller"
    /\ entry = "make_request"
    /\ \E n \in 0..MaxRetriesArg :
         /\ req' = BeginRequest(ListUrl, n)
         /\ IF n <= 0
            THEN Return(NoResponse)
            ELSE pc' = "make_request" /\ UNCHANGED ret
    /\ calls' = Append(calls, Target(ListUrl, page))
    /\ UNCHANGED <<entry, config, server, page, urls, cursor, files, todo,
                   error, commit_files, written, paced>>

CallGetCommitUrls ==
    /\ pc = "caller"
    /\ entry = "get_commit_urls"
    /\ StartGetCommitUrls
    /\ UNCHANGED <<entry, config, server, cursor, files, todo, ret, error,
                   commit_files, written, paced>>

CallGetCommitFiles ==
    /\ pc = "caller"
    /\ entry = "get_commit_files"
    /\ \E url \in CommitUrls :
         /\ req' = BeginRequest(url, DefaultMaxRetries)
         /\ calls' = Append(calls, Target(url, 0))
    /\ pc' = "get_commit_files"
    /\ UNCHANGED <<entry, config, server, page, urls, cursor, files, todo,
                   ret, error, commit_files, written, paced>>

\* the outside caller calls get_commits_files with its next argument list
CallGetCommitsFiles ==
    /\ pc \in {"caller", "returned"}
    /\ entry = "get_commits_files"
    /\ Len(ret) < Len(todo)
    /\ urls' = todo[Len(ret) + 1]
    /\ StartGetCommitsFiles
    /\ UNCHANGED <<entry, config, server, req, page, todo, ret, error,
                   commit_files, written, calls, paced>>

---------------------------------------------------------------------------
(* Inputs *)

F_a_py == <<"a", ".", "p", "y">>
F_b_pyc == <<"b", ".", "p", "y", "c">>
F_x_pyo == <<"x", ".", "p", "y", "o">>
F_notes_pdf == <<"n", "o", "t", "e", "s", ".", "p", "d", "f">>
F_c_txt == <<"c", ".", "t", "x", "t">>
F_src_old_module_py ==
    <<"s", "r", "c", "/", "o", "l", "d", "_", "m", "o", "d", "u", "l", "e",
      ".", "p", "y">>
F_Old_py == <<"O", "l", "d", ".", "p", "y">>

FileNames ==
    {F_a_py, F_b_pyc, F_x_pyo, F_notes_pdf, F_c_txt, F_src_old_module_py,
     F_Old_py}

\* commit records of the owner "alice" and of another login
Records ==
    {CommitRecord("ok", "c1", "alice"), CommitRecord("ok", "c2", "alice"),
     CommitRecord("ok", "c3", "Alice")}

\* the commit records of the owner among them
OwnerRecords == {r \in Records : r.login = "alice"}

\* the sequences of at most p pages that hold at most k of records in all
RECURSIVE PageSeqs(_, _, _)
PageSeqs(records, p, k) ==
    IF p = 0 THEN {<<>>}
    ELSE {<<>>} \cup
         UNION {{<<pg>> \o rest : rest \in PageSeqs(records, p - 1, k - Len(pg))} :
                  pg \in SeqsUpTo(records, k)}

\* list pages without any commit of the owner
ForeignPageSeqs ==
    {<<<<CommitRecord("ok", "c3", "Alice")>>>>,
     <<<<CommitRecord("ok", "c3", "Alice")>>, <<CommitRecord("ok", "c1", "bob")>>>>}

\* list pages with a record that lacks what the comprehension reads
MalformedPageSeqs ==
    {<<<<CommitRecord("ok", "c1", "alice"),
         CommitRecord("null_author", "c2", "")>>>>,
     <<<<CommitRecord("ok", "c1", "alice")>>,
       <<CommitRecord("no_login", "c2", "")>>>>,
     <<<<CommitRecord("no_author", "c2", "")>>>>,
     <<<<CommitRecord("no_url", "", "alice")>>>>,
     <<<<CommitRecord("no_url", "", "bob"),
         CommitRecord("ok", "c2", "alice")>>>>,
     <<<<CommitRecord("no_login", "c1", ""),
         CommitRecord("null_author", "c2", "")>>>>}

Detail(d1, d2, d3) ==
    [u \in CommitUrls |-> CASE u = "c1" -> d1 [] u = "c2" -> d2 [] OTHER -> d3]

DetailMaps ==
    {Detail(DetailBody(TRUE, <<F_a_py, F_b_pyc>>),
            DetailBody(TRUE, <<F_a_py, F_notes_pdf, F_c_txt>>),
            DetailBody(TRUE, <<>>)),
     Detail(DetailBody(TRUE, <<F_c_txt, F_src_old_module_py, F_c_txt>>),
            DetailBody(TRUE, <<F_Old_py, F_a_py>>),
            DetailBody(TRUE, <<F_x_pyo>>))}

MalformedDetailMaps ==
    {Detail(DetailBody(TRUE, <<F_a_py>>),
            DetailBody(FALSE, <<>>),
            DetailBody(TRUE, <<F_c_txt>>))}

\* network: "any" (every outcome), "flaky" (SomeFaults) or "reliable"
Server(pages, detail, network) ==
    [pages |-> pages, detail |-> detail, network |-> network]

\* b is a reordering of a
IsPermutation(a, b) ==
    /\ Len(a) = Len(b)
    /\ \E f \in Permutations(1..Len(a)) : \A i \in 1..Len(a) : b[i] = a[f[i]]

---------------------------------------------------------------------------
(* Specifications *)

DefaultConfig ==
    LoadConfig([GITHUB_TOKEN |-> "tok", GITHUB_REPO |-> "repo",
                GITHUB_REPO_OWNER |-> "alice"])

InitLocals ==
    /\ req = IdleRequest
    /\ page = 0
    /\ urls = <<>>
    /\ cursor = 0
    /\ files = {}
    /\ ret = <<>>
    /\ error = NoException
    /\ commit_files = <<>>
    /\ written = <<>>
    /\ calls = <<>>
    /\ paced = 0

\* a run of main: any environment, any served repository
Init ==
    /\ entry = "main"
    /\ pc = "main"
    /\ \E environ \in Environs : config = LoadConfig(environ)
    /\ \E pages \in PageSeqs(OwnerRecords, MaxPages, MaxCommits)
                     \cup ForeignPageSeqs \cup MalformedPageSeqs,
          detail \in DetailMaps \cup MalformedDetailMaps :
         server = Server(pages, detail, "flaky")
    /\ todo = <<>>
    /\ InitLocals

Next ==
    \/ Main
    \/ Attempt
    \/ GetCommitUrlsPage
    \/ GetCommitsFilesLoop
    \/ GetCommitFilesBody
    \/ WriteFilesToFile

Spec == Init /\ [][Next]_vars

\* a direct call make_request(url, headers, params, max_retries)
InitRequest ==
    /\ entry = "make_request"
    /\ pc = "caller"
    /\ config = DefaultConfig
    /\ server = Server(<<>>, CHOOSE d \in DetailMaps : TRUE, "any")
    /\ todo = <<>>
    /\ InitLocals

NextRequest ==
    \/ CallMakeRequest
    \/ Attempt

SpecRequest == InitRequest /\ [][NextRequest]_vars

\* direct calls of get_commit_urls and get_commit_files with any Config
InitConfig ==
    /\ entry \in {"get_commit_urls", "get_commit_files"}
    /\ pc = "caller"
    /\ config \in DirectConfigs
    /\ \E pages \in PageSeqs(OwnerRecords, 1, 1), detail \in DetailMaps :
         server = Server(pages, detail, "flaky")
    /\ todo = <<>>
    /\ InitLocals

NextConfig ==
    \/ CallGetCommitUrls
    \/ CallGetCommitFiles
    \/ Attempt
    \/ GetCommitUrlsPage
    \/ GetCommitFilesBody

SpecConfig == InitConfig /\ [][NextConfig]_vars

\* a direct call get_commit_urls(config) against any list of pages
InitUrls ==
    /\ entry = "get_commit_urls"
    /\ pc = "caller"
    /\ config = DefaultConfig
    /\ \E pages \in PageSeqs(Records, MaxPages, MaxCommits) :
         server = Server(pages, CHOOSE d \in DetailMaps : TRUE, "flaky")
    /\ todo = <<>>
    /\ InitLocals

NextUrls ==
    \/ CallGetCommitUrls
    \/ Attempt
    \/ GetCommitUrlsPage

SpecUrls == InitUrls /\ [][NextUrls]_vars

\* the same call, run to its end: the process is the only thread, every
\* sleep is finite and every GET ends with a response or an exception, so a
\* step that can be taken is taken
SpecUrlsFair == SpecUrls /\ WF_vars(NextUrls)

\* a direct call get_commit_files(url, config) against any files array
InitFiles ==
    /\ entry = "get_commit_files"
    /\ pc = "caller"
    /\ config = DefaultConfig
    /\ \E names \in SeqsUpTo(FileNames, MaxFiles) :
         server = Server(<<>>, [u \in CommitUrls |-> DetailBody(TRUE, names)],
                         "flaky")
    /\ todo = <<>>
    /\ InitLocals

NextFiles ==
    \/ CallGetCommitFiles
    \/ Attempt
    \/ GetCommitFilesBody

SpecFiles == InitFiles /\ [][NextFiles]_vars

\* two direct calls of get_commits_files, the second with a reordering of
\* the first one's url list, against a server whose commit details are fixed
InitAgg ==
    /\ entry = "get_commits_files"
    /\ pc = "caller"
    /\ config = DefaultConfig
    /\ \E detail \in DetailMaps : server = Server(<<>>, detail, "flaky")
    /\ \E list \in SeqsUpTo(CommitUrls, MaxUrls) :
         \E reordered \in [1..Len(list) -> Range(list)] :
            /\ IsPermutation(list, reordered)
            /\ todo = <<list, reordered>>
    /\ InitLocals

NextAgg ==
    \/ CallGetCommitsFiles
    \/ GetCommitsFilesLoop
    \/ Attempt
    \/ GetCommitFilesBody

SpecAgg == InitAgg /\ [][NextAgg]_vars

---------------------------------------------------------------------------
(* Claims about make_request, under SpecRequest *)

\* C1: for max_retries n >= 1, once n consecutive attempts of a make_request
\* call have failed the call has raised the error of the n-th attempt to its
\* caller after exactly n GETs, and no call ever issues more than
\* max_retries GETs.
C1_RaisesAfterMaxRetries ==
    /\ req.gets <= Max(req.max_retries, 0)
    /\ (req.max_retries >= 1 /\ req.failures = req.max_retries) =>
          /\ pc = "raised"
          /\ req.state = "raised"
          /\ req.gets = req.max_retries
          /\ error = RequestException(req.response)
          /\ error # NoException
          /\ ret = <<>>

\* C1 witness: a call with max_retries = 3 whose three attempts failed, the
\* last one with an HTTP error status
C1_Witness ==
    /\ entry = "make_request"
    /\ req.max_retries = 3
    /\ req.failures = 3
    /\ pc = "raised"
    /\ error.type = "HTTPError"

\* the attempts the loop of the running call still allows
AttemptsAllowed(r) ==
    IF r.state = "running" THEN r.max_retries - r.attempt ELSE 0

\* the step is an attempt that met a 403 with rate-limit headers and a reset
\* time in the future, and so slept in handle_rate_limit
RateLimitedAttempt ==
    /\ req.state = "running"
    /\ req'.gets = req.gets + 1
    /\ req'.waited > 0

\* C2: an attempt that receives a 403 with rate-limit headers and a reset
\* time in the future does not consume a retry: the attempts still allowed
\* after the wait are those allowed before the response.
C2_RateLimitKeepsRetries ==
    [][RateLimitedAttempt => AttemptsAllowed(req') = AttemptsAllowed(req)]_vars

---------------------------------------------------------------------------
(* Claims about the callers of make_request *)

\* C3: a list-endpoint or commit-detail request that keeps failing is
\* attempted exactly Config.MAX_RETRIES times before its error becomes
\* fatal, for every configuration (under SpecConfig).
C3_AttemptsAreConfigMaxRetries ==
    (pc = "raised" /\ req.state = "raised") => req.gets = config.MAX_RETRIES

\* all([GITHUB_TOKEN, GITHUB_REPO, GITHUB_REPO_OWNER]) of the loaded Config
ConfigComplete ==
    /\ config.GITHUB_TOKEN \notin {NoneValue, ""}
    /\ config.GITHUB_REPO \notin {NoneValue, ""}
    /\ config.GITHUB_REPO_OWNER \notin {NoneValue, ""}

\* C4, the state part: when a request of a run of main has failed for good,
\* main has re-raised that error and nothing has been written.
C4_FatalState ==
    req.state = "raised" =>
        /\ pc = "raised"
        /\ error = req.exc
        /\ error # NoException
        /\ written = <<>>

\* C4: in a run of main, an error that survives the executor's retries, in
\* the enumeration or in the resolution of a commit, is re-raised out of
\* main; from then on no commit is resolved, no request is made and
\* write_files_to_file is never invoked (under Spec).
C4_FatalErrorAborts ==
    /\ []C4_FatalState
    /\ [][req.state = "raised" => UNCHANGED vars]_vars

\* C4 witness: the resolution of the second of several commits failed for
\* good after the first one had been resolved
C4_Witness ==
    /\ pc = "raised"
    /\ req.state = "raised"
    /\ req.gets = DefaultMaxRetries
    /\ cursor = 2
    /\ Len(urls) > 2
    /\ files # {}

\* C5: if the token, the repository name or the repository owner is absent
\* or empty after load_config, the run of main ends with a configuration
\* error, issues no HTTP request and writes no output file (under Spec).
C5_InvalidConfigAborts ==
    ~ConfigComplete =>
        /\ calls = <<>>
        /\ req = IdleRequest
        /\ written = <<>>
        /\ \/ pc = "main" /\ error = NoException
           \/ pc = "raised" /\ error.type = "ValueError"

\* C5 witness: main has raised with an empty token and the other two set
C5_Witness ==
    /\ config.GITHUB_TOKEN = ""
    /\ config.GITHUB_REPO = "repo"
    /\ config.GITHUB_REPO_OWNER = "alice"
    /\ pc = "raised"
    /\ error.type = "ValueError"

---------------------------------------------------------------------------
(* Claims about get_commit_urls, under SpecUrls *)

\* the pages the list endpoint returns up to its first empty page
RECURSIVE PagesBeforeEmpty(_)
PagesBeforeEmpty(pages) ==
    IF pages = <<>> \/ Head(pages) = <<>> THEN <<>>
    ELSE <<Head(pages)>> \o PagesBeforeEmpty(Tail(pages))

IsOwnerRecord(commit) == commit.login = config.GITHUB_REPO_OWNER

\* the URLs of the owner's records among all records served, in order
OwnerUrlsServed ==
    LET own == SelectSeq(Flatten(PagesBeforeEmpty(server.pages)), IsOwnerRecord)
    IN  [i \in 1..Len(own) |-> own[i].url]

\* C6: the result of get_commit_urls is exactly the URLs of the commit
\* records whose author login equals the owner login (exact match), in page
\* order and in API order within each page, repeated URLs kept.
C6_OwnerUrlsInOrder ==
    pc = "returned" => ret = <<OwnerUrlsServed>>

\* C6 witness: two pages were served, the first with a commit of the owner
\* and one of the login "Alice", the second with the owner's commit again
C6_Witness ==
    /\ pc = "returned"
    /\ server.pages = <<<<CommitRecord("ok", "c2", "alice"),
                          CommitRecord("ok", "c3", "Alice")>>,
                        <<CommitRecord("ok", "c2", "alice")>>>>
    /\ ret = <<<<"c2", "c2">>>>

---------------------------------------------------------------------------
(* Claims about get_commit_files, under SpecFiles *)

\* the files array of the commit detail that was requested
FilesServed == server.detail[calls[1].url].files

\* the name has one of the suffixes .pyc, .pyo, .pdf
HasBlockedSuffix(name) ==
    \E k \in 0..Len(name) :
        \E ext \in {<<".", "p", "y", "c">>, <<".", "p", "y", "o">>,
                    <<".", "p", "d", "f">>} :
            name = SubSeq(name, 1, k) \o ext

\* the name holds the substring old
HasMarker(name) ==
    \E i \in 1..Len(name) : \E j \in i..Len(name) :
        SubSeq(name, i, j) = <<"o", "l", "d">>

\* C7: get_commit_files never returns a path that ends with .pyc, .pyo or
\* .pdf nor one that contains 'old', and it returns every other filename of
\* the payload.
C7_ExclusionExact ==
    pc = "returned" =>
        Range(ret[1]) =
            {name \in Range(FilesServed) :
                ~HasBlockedSuffix(name) /\ ~HasMarker(name)}

\* C7 witness: of src/old_module.py, b.pyc and a.py only a.py was returned
C7_Witness ==
    /\ pc = "returned"
    /\ FilesServed = <<F_src_old_module_py, F_b_pyc, F_a_py>>
    /\ ret = <<<<F_a_py>>>>

\* the index of the first occurrence of x in list
FirstIndex(x, list) ==
    CHOOSE i \in DOMAIN list : list[i] = x /\ \A j \in 1..(i - 1) : list[j] # x

\* C8: the list returned by get_commit_files contains no path twice, and its
\* paths appear in the order of their first occurrence in the files array.
C8_DedupFirstSeenOrder ==
    pc = "returned" =>
        LET out == ret[1]
        IN  /\ \A i, j \in DOMAIN out : i # j => out[i] # out[j]
            /\ \A i, j \in DOMAIN out :
                  i < j => FirstIndex(out[i], FilesServed)
                             < FirstIndex(out[j], FilesServed)

\* C8 witness: of c.txt, a.py, c.txt the second c.txt was dropped
C8_Witness ==
    /\ pc = "returned"
    /\ FilesServed = <<F_c_txt, F_a_py, F_c_txt>>
    /\ ret = <<<<F_c_txt, F_a_py>>>>

---------------------------------------------------------------------------
(* Claims about get_commits_files, under SpecAgg *)

\* a precedes b in lexicographic order: they differ first at k, where a has
\* ended or holds the smaller character
LexLess(a, b) ==
    \E k \in 1..(Len(b)) :
        /\ k <= Len(a) + 1
        /\ \A i \in 1..(k - 1) : a[i] = b[i]
        /\ k = Len(a) + 1 \/ Ord(a[k]) < Ord(b[k])

\* the list get_commit_files returns for url
ResolvedFiles(url) == FilterFiles(server.detail[url].files, <<>>)

\* the result of the call of get_commits_files that returned last, and its
\* argument
LastResult == ret[Len(ret)]

LastArgument == todo[Len(ret)]

\* C9: when all resolutions succeed, the result of get_commits_files is
\* sorted in strictly ascending lexicographic order and its elements are
\* those of the lists get_commit_files returned for the URLs.
C9_SortedUnion ==
    (pc = "returned" /\ ret # <<>>) =>
        /\ \A i \in 1..(Len(LastResult) - 1) :
              LexLess(LastResult[i], LastResult[i + 1])
        /\ Range(LastResult) =
              UNION {Range(ResolvedFiles(LastArgument[i])) :
                        i \in DOMAIN LastArgument}

\* C9 witness: the commits returning [a.py, b.pyc] and
\* [a.py, notes.pdf, c.txt] aggregated to [a.py, c.txt]
C9_Witness ==
    /\ pc = "returned"
    /\ Len(ret) = 1
    /\ todo[1] = <<"c1", "c2">>
    /\ server.detail["c1"].files = <<F_a_py, F_b_pyc>>
    /\ server.detail["c2"].files = <<F_a_py, F_notes_pdf, F_c_txt>>
    /\ ret[1] = <<F_a_py, F_c_txt>>

\* C10: get_commits_files returns the same list for a permutation of the
\* URL list as for the list, each URL resolving to the same files in both
\* calls and all resolutions succeeding.
C10_OrderInsensitive ==
    (pc = "returned" /\ Len(ret) = 2) => ret[1] = ret[2]

\* C10 witness: both calls returned, for url lists in different orders
\* whose commits have different files
C10_Witness ==
    /\ pc = "returned"
    /\ Len(ret) = 2
    /\ todo[1] # todo[2]
    /\ Len(todo[1]) = 3
    /\ ResolvedFiles(todo[1][1]) # ResolvedFiles(todo[1][3])
    /\ Len(ret[2]) >= 2

---------------------------------------------------------------------------
(* Claims about a run of main, under Spec *)

\* the enumeration of the run returned the empty list
EnumeratedNothing ==
    /\ pc \in {"get_commits_files", "write_files_to_file", "done"}
    /\ urls = <<>>

\* C11, the state part: after an enumeration that returned no URL, only the
\* list endpoint has been requested, and once main has ended the output file
\* has been written once with the empty string.
C11_EmptyState ==
    EnumeratedNothing =>
        /\ \A i \in DOMAIN calls : calls[i].url = ListUrl
        /\ pc # "done" => written = <<>>
        /\ pc = "done" => written = <<<<>>>>

\* C11: when get_commit_urls returns the empty list (the first page is
\* empty, or no commit is authored by the owner), the run requests no commit
\* detail, goes on through the aggregation to write_files_to_file, and what
\* it writes to the output file is the empty string.
C11_EmptyListWritesEmptyString ==
    /\ []C11_EmptyState
    /\ [][(EnumeratedNothing /\ pc = "get_commits_files")
             => (pc' = "write_files_to_file" /\ commit_files' = <<>>)]_vars
    /\ [][(EnumeratedNothing /\ pc = "write_files_to_file")
             => (pc' = "done" /\ written' = <<<<>>>>)]_vars

\* C11 witness: two pages of commits of other authors were listed, then the
\* empty page, and main ended after writing
C11_Witness ==
    /\ pc = "done"
    /\ urls = <<>>
    /\ Len(server.pages) = 2
    /\ calls = <<Target(ListUrl, 1), Target(ListUrl, 2), Target(ListUrl, 3)>>
    /\ written = <<<<>>>>

---------------------------------------------------------------------------
(* Claims about the pagination of get_commit_urls, under SpecUrlsFair *)

\* C12, the state part: the logical requests made so far are those of the
\* pages 1, 2, 3, ... in this order, each once; the counter is the page of
\* the last request; no page is requested after the first empty one, and
\* the call returns only after requesting that one.
C12_PagesState ==
    /\ \A i \in DOMAIN calls : calls[i] = Target(ListUrl, i)
    /\ Len(calls) <= Len(PagesBeforeEmpty(server.pages)) + 1
    /\ pc = "get_commit_urls" => page = Len(calls)
    /\ pc = "returned" => Len(calls) = Len(PagesBeforeEmpty(server.pages)) + 1

\* the step processes a non-empty page that make_request returned
ProcessesNonEmptyPage ==
    /\ pc = "get_commit_urls"
    /\ req.state = "returned"
    /\ req.value.kind = "Response"
    /\ req.value.body.data # <<>>

\* C12: get_commit_urls requests the pages 1, 2, 3, ... in increasing
\* order, each once as a logical request; after every non-empty page it
\* increments the counter and requests the next page, whether or not any
\* commit of the page passed the author filter; it stops at the first empty
\* page; and, the server returning an empty page at last, the call ends: it
\* returns unless a request failed for good.
C12_PagesInOrderUntilEmpty ==
    /\ []C12_PagesState
    /\ [][ProcessesNonEmptyPage
             => /\ page' = page + 1
                /\ calls' = Append(calls, Target(ListUrl, page + 1))
                /\ pc' = pc]_vars
    /\ <>(pc = "returned" \/ (pc = "raised" /\ req.state = "raised"))

\* C12 witness: page 1 held only a commit of another login, page 2 a
\* commit of the owner, page 3 was empty and ended the call
C12_Witness ==
    /\ pc = "returned"
    /\ server.pages = <<<<CommitRecord("ok", "c3", "Alice")>>,
                        <<CommitRecord("ok", "c1", "alice")>>>>
    /\ calls = <<Target(ListUrl, 1), Target(ListUrl, 2), Target(ListUrl, 3)>>
    /\ ret = <<<<"c1">>>>

---------------------------------------------------------------------------
(* Claims about the sleeps of make_request, under SpecRequest *)

\* the step is one attempt of the running call: a GET and what follows it
AttemptMade ==
    /\ req.state = "running"
    /\ req'.gets = req.gets + 1

\* the GET met a network error or a status outside 2xx
FailedOutcome(response) ==
    response.kind = "ConnectionError" \/ response.status \notin 200..299

\* C13: within one make_request call, the failed attempt of index i
\* (0-based) that is not the last allowed one is followed by a sleep of
\* exactly 2^i seconds and then by attempt i+1; the failure of the last
\* allowed attempt is raised without a back-off sleep; after a successful
\* attempt there is no back-off sleep and the call, having returned, issues
\* no further GET.
C13_BackoffDoubles ==
    /\ [][(AttemptMade /\ FailedOutcome(req'.response)
             /\ req.attempt # req.max_retries - 1)
            => /\ req'.backoff = 2 ^ req.attempt
               /\ req'.state = "running"
               /\ req'.attempt = req.attempt + 1]_vars
    /\ [][(AttemptMade /\ FailedOutcome(req'.response)
             /\ req.attempt = req.max_retries - 1)
            => /\ req'.backoff = 0
               /\ req'.state = "raised"
               /\ pc' = "raised"]_vars
    /\ [][(AttemptMade /\ ~FailedOutcome(req'.response))
            => /\ req'.backoff = 0
               /\ req'.state = "returned"
               /\ ret' = <<req'.response>>]_vars
    /\ [][req.state \in {"returned", "raised"} => req' = req]_vars

\* C13 witness: a call with max_retries = 4 slept 4 seconds after its third
\* failed attempt (index 2) and is about to make the fourth
C13_Witness ==
    /\ entry = "make_request"
    /\ req.max_retries = 4
    /\ req.state = "running"
    /\ req.gets = 3
    /\ req.attempt = 3
    /\ req.backoff = 4

\* the last response is a 403 that carries X-RateLimit-Remaining
SignalsRateLimit == req.response.status = 403 /\ req.response.remaining

\* C14: on every attempt of make_request, the last allowed one included, a
\* 403 response with the rate-limit headers and a reset timestamp makes the
\* call wait max(reset - now, 0) and then fail the status check of that
\* attempt; the wait is never negative; there is no wait for a response
\* that is not a 403, that lacks the rate-limit header, or whose reset time
\* is absent or not after now.
C14_RateLimitWait ==
    req.gets > 0 =>
        /\ req.waited >= 0
        /\ (SignalsRateLimit /\ req.response.hasReset) =>
              /\ req.waited = IF req.response.reset > req.now
                              THEN req.response.reset - req.now ELSE 0
              /\ req.exc = [type |-> "HTTPError", status |-> 403]
              /\ req.state \in {"running", "raised"}
        /\ (~SignalsRateLimit \/ ~req.response.hasReset
               \/ req.response.reset <= req.now) => req.waited = 0

\* C14 witness: the only allowed attempt met a 403 with the rate-limit
\* headers and a reset time 2 seconds ahead: the call waited 2 seconds and
\* then raised
C14_Witness ==
    /\ entry = "make_request"
    /\ req.max_retries = 1
    /\ req.gets = 1
    /\ req.response.status = 403
    /\ req.response.remaining
    /\ req.response.hasReset
    /\ req.response.reset = req.now + 2
    /\ req.waited = 2
    /\ pc = "raised"

---------------------------------------------------------------------------
(* Claims about the order and the pacing of the requests of main, under Spec *)

\* the step issues a logical request that is not the first one of the run
IssuesFurtherRequest ==
    /\ calls # <<>>
    /\ Len(calls') = Len(calls) + 1

\* C15: in a run of main every logical request after the first one (the
\* next page, the first commit detail after the last page, the next commit
\* detail) is issued only after the pipeline has slept RATE_LIMIT_DELAY
\* since the GET before it.
C15_PacedBetweenRequests ==
    [][IssuesFurtherRequest => paced' >= config.RATE_LIMIT_DELAY]_vars

\* the logical request is one of a commit detail
IsDetailCall(call) == call.url # ListUrl

\* the commit-detail requests of the run so far, in order
DetailCalls == SelectSeq(calls, IsDetailCall)

\* C16: in a run of main every list-endpoint request precedes every
\* commit-detail request; the commit-detail requests are those of the
\* enumerated URLs, one per entry of the list and in its order (a URL listed
\* twice is fetched twice); the output file is written at most once, and
\* only when every enumerated commit has been resolved.
C16_StagesInOrder ==
    /\ \A i, j \in DOMAIN calls :
          (i < j /\ IsDetailCall(calls[i])) => IsDetailCall(calls[j])
    /\ pc = "get_commit_urls" => DetailCalls = <<>>
    /\ Len(DetailCalls) <= Len(urls)
    /\ \A i \in DOMAIN DetailCalls : DetailCalls[i].url = urls[i]
    /\ Len(written) <= 1
    /\ (written # <<>> \/ pc = "write_files_to_file") =>
          /\ Len(DetailCalls) = Len(urls)
          /\ cursor = Len(urls) + 1
          /\ req = IdleRequest
    /\ written # <<>> => pc = "done"

\* C16 witness: the enumeration returned c1 twice and then c2; main ended
\* after two list requests, three commit-detail requests and one write
C16_Witness ==
    /\ pc = "done"
    /\ urls = <<"c1", "c1", "c2">>
    /\ calls = <<Target(ListUrl, 1), Target(ListUrl, 2), Target("c1", 0),
                 Target("c1", 0), Target("c2", 0)>>
    /\ Len(written) = 1

---------------------------------------------------------------------------
(* Claims about the outcome of make_request, under SpecRequest *)

\* C17: for every max_retries, a make_request call that has ended either
\* returned the response of an attempt whose status check passed or raised
\* a request error; it never returned without a response.
C17_ResponseOrError ==
    /\ pc = "returned" =>
          /\ Len(ret) = 1
          /\ ret[1].kind = "Response"
          /\ ret[1].status \in 200..299
          /\ req.gets >= 1
          /\ ret[1] = req.response
    /\ pc = "raised" => error.type \in {"ConnectionError", "HTTPError"}

---------------------------------------------------------------------------
(* Claims about payloads of an unexpected shape, under Spec *)

\* the step processes the list page that make_request returned
ProcessesPage ==
    /\ pc = "get_commit_urls"
    /\ req.state = "returned"
    /\ req.value.kind = "Response"

\* the step processes the commit detail that make_request returned
ProcessesDetail ==
    /\ pc = "get_commit_files"
    /\ req.state = "returned"
    /\ req.value.kind = "Response"

PageData == req.value.body.data

\* the record lacks url, author.login or author, or its author is null
Malformed(commit) == commit.shape # "ok"

\* the record is one the comprehension cannot evaluate: its author is null
\* or lacks login, it has no author, or it is a record of the owner
\* without url
Unreadable(commit) ==
    \/ commit.shape \in {"null_author", "no_login", "no_author"}
    \/ commit.shape = "no_url" /\ IsOwnerRecord(commit)

\* subscripting None raises TypeError, a missing key KeyError
ErrorType(commit) ==
    IF commit.shape = "null_author" THEN "TypeError" ELSE "KeyError"

\* the step raises an error of this type out of main: no request is
\* repeated or added, nothing is returned and nothing is written
AbortsWith(type) ==
    /\ pc' = "raised"
    /\ error'.type = type
    /\ req' = req
    /\ calls' = calls
    /\ ret' = <<>>
    /\ commit_files' = <<>>
    /\ written' = <<>>

\* a commit detail without files aborts the run with KeyError
DetailWithoutFilesAborts ==
    (ProcessesDetail /\ ~req.value.body.hasFiles) => AbortsWith("KeyError")

\* C18 as stated: a fetched page with a commit record whose author is null
\* or that lacks login or url, and a commit detail without a files array,
\* is neither skipped nor retried: the run aborts with the error of the
\* first such record, what was collected is dropped and nothing is written.
C18_MalformedPayloadAborts ==
    /\ [][(ProcessesPage /\ \E i \in DOMAIN PageData : Malformed(PageData[i]))
            => LET first == CHOOSE i \in DOMAIN PageData :
                               /\ Malformed(PageData[i])
                               /\ \A j \in 1..(i - 1) : ~Malformed(PageData[j])
               IN  AbortsWith(ErrorType(PageData[first]))]_vars
    /\ [][DetailWithoutFilesAborts]_vars
    /\ [][pc = "raised" => UNCHANGED vars]_vars

\* C18 amended: a fetched page with a commit record whose author is null or
\* lacks login, that has no author, or that is authored by the owner and
\* lacks url, and a commit detail without a files array, is neither skipped
\* nor retried: the run aborts with the error of the first such record,
\* what was collected is dropped and nothing is written. A record of
\* another author that lacks url is passed over like any record of another
\* author.
C18_UnreadablePayloadAborts ==
    /\ [][(ProcessesPage /\ \E i \in DOMAIN PageData : Unreadable(PageData[i]))
            => LET first == CHOOSE i \in DOMAIN PageData :
                               /\ Unreadable(PageData[i])
                               /\ \A j \in 1..(i - 1) : ~Unreadable(PageData[j])
               IN  AbortsWith(ErrorType(PageData[first]))]_vars
    /\ [][(ProcessesPage /\ PageData # <<>>
              /\ \A i \in DOMAIN PageData : ~Unreadable(PageData[i]))
            => LET own == SelectSeq(PageData, IsOwnerRecord)
               IN  /\ pc' = pc
                   /\ error' = NoException
                   /\ urls' = urls \o [i \in 1..Len(own) |-> own[i].url]]_vars
    /\ [][DetailWithoutFilesAborts]_vars
    /\ [][pc = "raised" => UNCHANGED vars]_vars

\* C18 witness: page 1 gave the URL c1, page 2 held a record whose author
\* lacks login: main raised KeyError after the two list requests, without
\* any commit-detail request and without writing
C18_Witness ==
    /\ pc = "raised"
    /\ error.type = "KeyError"
    /\ urls = <<"c1">>
    /\ calls = <<Target(ListUrl, 1), Target(ListUrl, 2)>>
    /\ req.value.body.data = <<CommitRecord("no_login", "c2", "")>>
    /\ written = <<>>

=============================================================================
